---- MODULE Spec2Model ----
(***************************************************************************)
(* A model of tinygrad/renderer/cstyle.py: the C-style renderer that turns *)
(* a linearized list of UOps into kernel source text.                      *)
(*                                                                         *)
(* Text is modelled as a sequence of lexemes (strings): concatenating the  *)
(* lexemes of a text in order gives the Python string.  Each parenthesis,  *)
(* brace, bracket and comma is a lexeme of its own and every identifier    *)
(* (a variable name, a type name) is one lexeme, so that counting          *)
(* identifiers, counting braces and strip_parens are exact; fixed text     *)
(* that no property looks into (a kernel prefix, a prelude) is one lexeme. *)
(* A UOp is identified by its position in uops (Python: object identity);  *)
(* vin holds positions.  Python indexes from 0, this module from 1.        *)
(***************************************************************************)
EXTENDS Integers, Sequences, FiniteSets, TLC

VARIABLES lang, EXPAND_SSA, uops, child_count, pos, status, depth, kernel,
          prekernel, bufs, local_size, c, r, ret

vars == <<lang, EXPAND_SSA, uops, child_count, pos, status, depth, kernel,
          prekernel, bufs, local_size, c, r, ret>>

(***************************************************************************)
(* Text helpers                                                            *)
(***************************************************************************)
RECURSIVE Flatten(_)
Flatten(ss) == IF ss = <<>> THEN <<>> ELSE Head(ss) \o Flatten(Tail(ss))

\* sep.join(xs) for a sequence xs of texts
RECURSIVE Join(_, _)
Join(xs, sep) ==
  IF xs = <<>> THEN <<>>
  ELSE IF Len(xs) = 1 THEN xs[1]
  ELSE xs[1] \o sep \o Join(Tail(xs), sep)

\* number of lexemes of text t equal to tok
RECURSIVE CountTok(_, _)
CountTok(t, tok) ==
  IF t = <<>> THEN 0
  ELSE (IF Head(t) = tok THEN 1 ELSE 0) + CountTok(Tail(t), tok)

\* str.find on lexemes: the first position (from 0) of tok in t, or -1
FindTok(t, tok) ==
  IF \E i \in 1..Len(t) : t[i] = tok
  THEN (CHOOSE i \in 1..Len(t) : t[i] = tok /\ \A j \in 1..(i-1) : t[j] # tok) - 1
  ELSE -1

\* a in b for texts: a is a contiguous part of b
IsInfix(a, b) ==
  \E k \in 0..(Len(b) - Len(a)) : \A j \in 1..Len(a) : b[k + j] = a[j]

\* str.replace on lexemes
ReplaceTok(t, old, new) == [i \in 1..Len(t) |-> IF t[i] = old THEN new ELSE t[i]]

(***************************************************************************)
(* tinygrad.helpers: DType, dtypes, strip_parens (not part of cstyle.py)   *)
(***************************************************************************)
DT(name, sz, base, cls) == [name |-> name, sz |-> sz, base |-> base, cls |-> cls]
NoneDType == DT("None", 0, "None", "None")
dt_float  == DT("float", 1, "float", "DType")
dt_half   == DT("half", 1, "half", "DType")
dt_int    == DT("int", 1, "int", "DType")
dt_uint   == DT("unsigned int", 1, "unsigned int", "DType")
dt_bool   == DT("bool", 1, "bool", "DType")
dt_float2 == DT("float2", 2, "float", "DType")
dt_float4 == DT("float4", 4, "float", "DType")
dt_float8 == DT("float8", 8, "float", "DType")
dt_imagef == DT("imagef", 1, "float", "ImageDType")
PtrDType(d) == [d EXCEPT !.cls = "PtrDType"]

\* DType is a NamedTuple: == compares the fields, not the class
DTypeEq(a, b) == a.name = b.name /\ a.sz = b.sz
IsNone(d) == d.cls = "None"
isImage(d) == d.cls = "ImageDType"
isPtr(d) == d.cls = "PtrDType"
IntNames == {"char", "short", "int", "long", "unsigned char", "unsigned short",
             "unsigned int", "unsigned long"}
FloatNames == {"half", "float", "double"}
is_int(d) == d.sz = 1 /\ d.name \in IntNames
is_float(d) == d.base \in FloatNames /\ ~isImage(d)

\* fst[1:-1] if fst[0] == '(' and fst[-1] == ')' and
\*   fst[1:-1].find('(') <= fst[1:-1].find(')') else fst
strip_parens(fst) ==
  IF Len(fst) >= 2 /\ fst[1] = "(" /\ fst[Len(fst)] = ")"
     /\ LET mid == SubSeq(fst, 2, Len(fst) - 1)
        IN FindTok(mid, "(") <= FindTok(mid, ")")
  THEN SubSeq(fst, 2, Len(fst) - 1)
  ELSE fst

(***************************************************************************)
(* CStyleLanguage and the five backend profiles                            *)
(***************************************************************************)
Profiles == {"CStyleLanguage", "OpenCLLanguage", "MetalLanguage", "CUDALanguage",
             "HIPLanguage", "WGSLLanguage"}

\* the class attributes; a str is a text, Optional[str] None is <<>>
CStyleLanguage ==
  [ size_prefix |-> <<"int">>, generic_var_prefix |-> <<>>, kernel_prefix |-> <<>>,
    buffer_prefix |-> <<>>, buffer_suffix |-> <<>>, smem_align |-> <<>>,
    smem_prefix |-> <<>>, smem_prefix_for_cast |-> TRUE,
    arg_int_prefix |-> <<"const", "int">>, barrier |-> <<>>,
    xid |-> <<>>, gid |-> <<>>, lid |-> <<>>, extra_args |-> <<>>,
    float4 |-> <<>>, half_prekernel |-> <<>>, uses_vload |-> FALSE,
    external_local_bufs |-> FALSE, uses_ptr_arithmetic |-> FALSE,
    launch_bounds |-> FALSE ]

Axes(f) == [i \in 1..3 |-> <<f, "(", <<"0", "1", "2">>[i], ")">>]
AxesXYZ(pre) == [i \in 1..3 |-> <<pre \o <<"x", "y", "z">>[i]>>]
AxesI32(pre) == [i \in 1..3 |-> <<"i32", "(", pre \o <<"x", "y", "z">>[i], ")">>]
CudaXid == [i \in 1..3 |-> LET a == <<"x", "y", "z">>[i]
                           IN <<"(", "blockIdx." \o a, "*", "blockDim." \o a, "+",
                                "threadIdx." \o a, ")">>]

OpenCLLanguage ==
  [CStyleLanguage EXCEPT
    !.kernel_prefix = <<"__kernel">>, !.buffer_prefix = <<"__global">>,
    !.smem_align = <<"__attribute__ ((aligned (16)))">>, !.smem_prefix = <<"__local">>,
    !.half_prekernel = <<"#pragma OPENCL EXTENSION cl_khr_fp16 : enable">>,
    !.barrier = <<"barrier", "(", "CLK_LOCAL_MEM_FENCE", ")", ";">>,
    !.float4 = <<"(", "float4", ")">>,
    !.gid = Axes("get_group_id"), !.lid = Axes("get_local_id"),
    !.xid = Axes("get_global_id"), !.uses_vload = TRUE]

MetalLanguage ==
  [CStyleLanguage EXCEPT
    !.kernel_prefix = <<"#include <metal_stdlib>", "using namespace metal;", "kernel">>,
    !.buffer_prefix = <<"device">>, !.smem_prefix = <<"threadgroup">>,
    !.arg_int_prefix = <<"constant", "int&">>,
    !.barrier = <<"threadgroup_barrier", "(", "mem_flags::mem_threadgroup", ")", ";">>,
    !.float4 = <<"float4">>, !.uses_ptr_arithmetic = TRUE,
    !.gid = AxesXYZ("gid."), !.lid = AxesXYZ("lid."),
    !.extra_args = << <<"uint3", "gid", "[[threadgroup_position_in_grid]]">>,
                      <<"uint3", "lid", "[[thread_position_in_threadgroup]]">> >>]

CUDALanguage ==
  [CStyleLanguage EXCEPT
    !.kernel_prefix = <<"#define INFINITY (__int_as_float(0x7f800000))",
                        "#define NAN (__int_as_float(0x7fffffff))", "extern \"C\" __global__">>,
    !.smem_prefix = <<"__shared__">>, !.smem_prefix_for_cast = FALSE,
    !.barrier = <<"__syncthreads", "(", ")", ";">>, !.float4 = <<"make_", "float4">>,
    !.gid = AxesXYZ("blockIdx."), !.lid = AxesXYZ("threadIdx."), !.xid = CudaXid,
    !.half_prekernel = <<"#include <cuda_fp16.h>", "struct half4", "make_half4">>]

HIPLanguage ==
  [CStyleLanguage EXCEPT
    !.kernel_prefix = <<"#include <hip/hip_common.h>", "#define INFINITY (__builtin_inff())",
                        "#define NAN (__builtin_nanf(\"\"))", "typedef float8", "make_float8",
                        "extern \"C\" __global__">>,
    !.launch_bounds = TRUE, !.smem_prefix = <<"__shared__">>, !.smem_prefix_for_cast = FALSE,
    !.barrier = <<"__syncthreads", "(", ")", ";">>, !.float4 = <<"make_", "float4">>,
    !.uses_ptr_arithmetic = TRUE,
    !.half_prekernel = <<"#include <hip/hip_fp16.h>", "typedef half4", "make_half4",
                         "typedef half8", "make_half8", "typedef half16", "make_half16">>,
    !.gid = AxesXYZ("blockIdx."), !.lid = AxesXYZ("threadIdx."), !.xid = CudaXid]

WGSLLanguage ==
  [CStyleLanguage EXCEPT
    !.gid = AxesI32("gindex."), !.lid = AxesI32("lindex."),
    !.size_prefix = <<"let">>, !.barrier = <<"workgroupBarrier", "(", ")", ";">>,
    !.generic_var_prefix = <<"var">>, !.external_local_bufs = TRUE]

P(l) == CASE l = "CStyleLanguage" -> CStyleLanguage
          [] l = "OpenCLLanguage" -> OpenCLLanguage
          [] l = "MetalLanguage"  -> MetalLanguage
          [] l = "CUDALanguage"   -> CUDALanguage
          [] l = "HIPLanguage"    -> HIPLanguage
          [] l = "WGSLLanguage"   -> WGSLLanguage

(***************************************************************************)
(* code_for_op: the operator tables                                        *)
(***************************************************************************)
UnaryOps == {"NEG", "EXP2", "LOG2", "SIN", "SQRT"}
BinaryOps == {"ADD", "SUB", "MUL", "DIV", "MAX", "MOD", "CMPLT", "XOR"}
TernaryOps == {"MULACC", "WHERE"}
AllOps == UnaryOps \cup BinaryOps \cup TernaryOps

Infix(a, sym, b) == <<"(">> \o a \o <<sym>> \o b \o <<")">>
Call(f, args) == <<f, "(">> \o Join(args, <<",">>) \o <<")">>

\* CStyleLanguage.code_for_op[op](*x, dtype)
base_code_for_op(op, x, dtype) ==
  CASE op = "NEG"   -> IF ~DTypeEq(dtype, dt_bool) THEN <<"(", "-">> \o x[1] \o <<")">>
                                                   ELSE <<"(", "!">> \o x[1] \o <<")">>
    [] op = "EXP2"  -> Call("exp2", x)
    [] op = "LOG2"  -> Call("log2", x)
    [] op = "SIN"   -> Call("sin", x)
    [] op = "SQRT"  -> Call("sqrt", x)
    [] op = "ADD"   -> Infix(x[1], "+", x[2])
    [] op = "SUB"   -> Infix(x[1], "-", x[2])
    [] op = "MUL"   -> Infix(x[1], "*", x[2])
    [] op = "DIV"   -> Infix(x[1], "/", x[2])
    [] op = "MAX"   -> Call("max", x)
    [] op = "MOD"   -> Infix(x[1], "%", x[2])
    [] op = "CMPLT" -> Infix(x[1], "<", x[2])
    [] op = "XOR"   -> Infix(x[1], "^", x[2])
    [] op = "MULACC" -> <<"(">> \o Infix(x[1], "*", x[2]) \o <<"+">> \o x[3] \o <<")">>
    [] op = "WHERE"  -> <<"(">> \o x[1] \o <<"?">> \o x[2] \o <<":">> \o x[3] \o <<")">>

HalfFn(op) == CASE op = "MAX" -> "__hmax" [] op = "SQRT" -> "hsqrt" [] op = "SIN" -> "hsin"
                [] op = "LOG2" -> "hlog2" [] op = "EXP2" -> "hexp2"

\* lang.code_for_op[op](*x, dtype), with each profile's overrides
code_for_op(l, op, x, dtype) ==
  CASE l = "OpenCLLanguage" /\ op = "MULACC" -> Call("mad", x)
    [] l \in {"CUDALanguage", "HIPLanguage"} /\ op \in {"MAX", "SQRT", "SIN", "LOG2", "EXP2"}
         -> IF ~DTypeEq(dtype, dt_half) THEN base_code_for_op(op, x, dtype)
                                        ELSE Call(HalfFn(op), x)
    [] l = "WGSLLanguage" /\ op = "CMPLT"
         -> <<"f32", "(">> \o x[1] \o <<"<">> \o x[2] \o <<")">>
    [] l = "WGSLLanguage" /\ op = "MULACC" -> Call("fma", x)
    [] l = "WGSLLanguage" /\ op = "WHERE"
         -> <<"select", "(">> \o x[3] \o <<",">> \o x[2] \o <<",", "bool", "(">> \o x[1] \o <<")", ")">>
    [] OTHER -> base_code_for_op(op, x, dtype)

(***************************************************************************)
(* The rendering hooks.  A Python function that can raise is two           *)
(* operators: f_raises (the inputs on which it raises) and f (its result). *)
(***************************************************************************)
OpenCLTypeMap(d) ==
  CASE d.name = "unsigned char" -> "uchar" [] d.name = "unsigned int" -> "uint"
    [] d.name = "unsigned short" -> "ushort" [] d.name = "unsigned long" -> "ulong"
    [] OTHER -> d.name

WGSLTypeNames == {"float", "half", "int", "unsigned int", "bool"}
InWGSLTypeMap(d) == d.sz = 1 /\ d.name \in WGSLTypeNames
WGSLTypeMap(d) ==
  CASE d.name = "float" -> "f32" [] d.name = "half" -> "f16" [] d.name = "int" -> "i32"
    [] d.name = "unsigned int" -> "u32" [] d.name = "bool" -> "f32"

\* CStyleLanguage.render_cast raises: x[0] on an empty list, or one of the two asserts
base_render_cast_raises(l, x, var_dtype, bitcast) ==
  IF bitcast THEN Len(x) = 0
  ELSE IF Len(x) = 1 THEN FALSE
  ELSE Len(x) # var_dtype.sz \/ P(l).float4 = <<>>

base_render_cast(l, x, var_dtype, bitcast) ==
  IF bitcast
  THEN <<"(", "*", "(", "(">> \o P(l).buffer_prefix \o <<var_dtype.name, "*", ")", "&">>
         \o x[1] \o <<")", ")">>
  ELSE IF Len(x) = 1 THEN <<"(", var_dtype.name, ")", "(">> \o x[1] \o <<")">>
  ELSE ReplaceTok(P(l).float4, "float4", var_dtype.name) \o <<"(">> \o Join(x, <<",">>) \o <<")">>

\* lang.render_cast(x, var_dtype, bitcast) raises
render_cast_raises(l, x, var_dtype, bitcast) ==
  CASE l = "WGSLLanguage" -> ~InWGSLTypeMap(var_dtype) \/ Len(x) = 0
    [] l \in {"OpenCLLanguage", "MetalLanguage"} /\ bitcast -> Len(x) = 0
    [] l \in {"OpenCLLanguage", "MetalLanguage"} /\ ~bitcast
         -> base_render_cast_raises(l, x, var_dtype, FALSE)
    [] OTHER -> base_render_cast_raises(l, x, var_dtype, bitcast)

\* lang.render_cast(x, var_dtype, bitcast)
render_cast(l, x, var_dtype, bitcast) ==
  CASE l = "WGSLLanguage"
         -> IF bitcast THEN <<"bitcast", "<", WGSLTypeMap(var_dtype), ">", "(">> \o x[1] \o <<")">>
                       ELSE <<WGSLTypeMap(var_dtype), "(">> \o x[1] \o <<")">>
    [] l = "OpenCLLanguage" /\ bitcast
         -> <<"as_" \o OpenCLTypeMap(var_dtype), "(">> \o x[1] \o <<")">>
    [] l = "MetalLanguage" /\ bitcast
         -> <<"as_type", "<", var_dtype.name, ">", "(">> \o x[1] \o <<")">>
    [] l \in {"OpenCLLanguage", "MetalLanguage"} /\ ~bitcast
         -> base_render_cast(l, x, var_dtype, FALSE)
    [] OTHER -> base_render_cast(l, x, var_dtype, bitcast)

\* A constant (the arg of CONST and DEFINE_ACC): a number, NaN or an infinity
Num(n) == [op |-> "num", name |-> "", n |-> n, m |-> 0, flag |-> FALSE]
isnan(a) == a.op = "nan"
isinf(a) == a.op \in {"inf", "ninf"}
IsNegative(a) == a.op = "ninf" \/ (a.op = "num" /\ a.n < 0)

NeedsConstCast(var_dtype) ==
  var_dtype.sz > 1 \/ ~(\E d \in {dt_float, dt_int, dt_bool} : DTypeEq(var_dtype, d))

base_const_val(a, var_dtype) ==
  IF isnan(a) THEN "NAN"
  ELSE IF isinf(a) THEN (IF IsNegative(a) THEN "-" ELSE "") \o "INFINITY"
  ELSE IF is_float(var_dtype) THEN ToString(a.n) \o ".0f"
  ELSE IF is_int(var_dtype) THEN ToString(a.n)
  ELSE IF a.n # 0 THEN "true" ELSE "false"

base_render_const_raises(l, a, var_dtype) ==
  NeedsConstCast(var_dtype)
  /\ render_cast_raises(l, [i \in 1..var_dtype.sz |-> <<base_const_val(a, var_dtype)>>],
                        var_dtype, FALSE)

base_render_const(l, a, var_dtype) ==
  IF NeedsConstCast(var_dtype)
  THEN render_cast(l, [i \in 1..var_dtype.sz |-> <<base_const_val(a, var_dtype)>>],
                   var_dtype, FALSE)
  ELSE <<base_const_val(a, var_dtype)>>

render_const_raises(l, a, var_dtype) ==
  IF l = "WGSLLanguage" /\ (isnan(a) \/ isinf(a)) THEN FALSE
  ELSE base_render_const_raises(l, a, var_dtype)

\* lang.render_const(x, var_dtype)
render_const(l, a, var_dtype) ==
  IF l = "WGSLLanguage"
  THEN IF isnan(a) THEN <<"nan", "(", ")">>
       ELSE IF isinf(a)
            THEN (IF IsNegative(a) THEN <<"-">> ELSE <<>>) \o <<"inf", "(", "1.0", ")">>
       ELSE <<"(">> \o base_render_const(l, a, var_dtype) \o <<")">>
  ELSE base_render_const(l, a, var_dtype)

\* the address-space prefix of a vector load or store
VecPrefix(l, local) ==
  IF local /\ P(l).smem_prefix_for_cast THEN P(l).smem_prefix ELSE P(l).buffer_prefix

UsesVloadHalf(l, buf_dtype, dtype) ==
  P(l).uses_vload /\ buf_dtype.base = "half" /\ dtype.base # "half"

load_out_val(l, output_dtype, buf_name, buf_dtype, idx, local) ==
  IF output_dtype.sz > 1
  THEN <<"*", "(", "(">> \o VecPrefix(l, local)
         \o <<buf_dtype.name \o ToString(output_dtype.sz), "*", ")", "(">>
         \o buf_name \o <<"+">> \o idx \o <<")", ")">>
  ELSE IF P(l).uses_ptr_arithmetic
       THEN <<"*", "(">> \o buf_name \o <<"+">> \o idx \o <<")">>
       ELSE buf_name \o <<"[">> \o idx \o <<"]">>

render_load_raises(l, output_dtype, buf_name, buf_dtype, idx, local) ==
  IF isImage(buf_dtype) THEN ~DTypeEq(output_dtype, dt_float4)
  ELSE IF UsesVloadHalf(l, buf_dtype, output_dtype) THEN FALSE
  ELSE ~DTypeEq(output_dtype, buf_dtype)
       /\ render_cast_raises(l, <<load_out_val(l, output_dtype, buf_name, buf_dtype, idx, local)>>,
                             output_dtype, FALSE)

\* lang.render_load(output_dtype, buf_name, buf_dtype, idx, local)
render_load(l, output_dtype, buf_name, buf_dtype, idx, local) ==
  IF isImage(buf_dtype)
  THEN <<"read_imagef", "(">> \o buf_name \o <<",", "smp", ",">> \o idx \o <<")">>
  ELSE IF UsesVloadHalf(l, buf_dtype, output_dtype)
  THEN <<"vload_half" \o (IF output_dtype.sz = 1 THEN "" ELSE ToString(output_dtype.sz)),
         "(", "0", ",">> \o buf_name \o <<"+">> \o idx \o <<")">>
  ELSE LET out_val == load_out_val(l, output_dtype, buf_name, buf_dtype, idx, local)
       IN IF ~DTypeEq(output_dtype, buf_dtype)
          THEN render_cast(l, <<out_val>>, output_dtype, FALSE)
          ELSE out_val

\* lang.render_local(name, size)
render_local(l, name, size) ==
  IF l = "WGSLLanguage"
  THEN <<"var<workgroup>", name, ":", "array<f32,", ToString(size), ">", ";">>
  ELSE P(l).smem_align \o P(l).smem_prefix \o <<"float", name, "[", ToString(size), "]", ";">>

\* lang.render_for(expr, _min, _max)
render_for(l, expr, min, max) ==
  <<"for", "(">> \o (IF P(l).generic_var_prefix # <<>> THEN P(l).generic_var_prefix ELSE <<"int">>)
    \o expr \o <<"=">> \o min \o <<";">> \o expr \o <<"<">> \o max \o <<";">>
    \o expr \o <<"++", ")", "{">>

\* lang.render_if(cond)
render_if(l, cond) ==
  IF l = "WGSLLanguage" THEN <<"if", "(", "bool", "(">> \o cond \o <<")", ")", "{">>
  ELSE <<"if", "(">> \o cond \o <<")", "{">>

\* lang.render_conditional(cond, x, y)
render_conditional(l, cond, x, y) ==
  IF l = "WGSLLanguage"
  THEN <<"select", "(">> \o y \o <<",">> \o x \o <<",", "bool", "(">> \o cond \o <<")", ")">>
  ELSE <<"(">> \o cond \o <<")", "?", "(">> \o x \o <<")", ":">> \o y

render_store_raises(l, buf_name, buf_dtype, var_name, var_dtype, idx, local) ==
  IF l = "WGSLLanguage"
  THEN ~DTypeEq(var_dtype, buf_dtype) /\ render_cast_raises(l, <<var_name>>, buf_dtype, FALSE)
  ELSE isImage(buf_dtype) /\ ~DTypeEq(var_dtype, dt_float4)

\* lang.render_store(buf_name, buf_dtype, var_name, var_dtype, idx, local)
render_store(l, buf_name, buf_dtype, var_name, var_dtype, idx, local) ==
  IF l = "WGSLLanguage"
  THEN buf_name \o <<"[">> \o idx \o <<"]", "=">>
         \o (IF ~DTypeEq(var_dtype, buf_dtype) THEN render_cast(l, <<var_name>>, buf_dtype, FALSE)
             ELSE var_name) \o <<";">>
  ELSE IF isImage(buf_dtype)
  THEN <<"write_imagef", "(">> \o buf_name \o <<",">> \o idx \o <<",">> \o var_name \o <<")", ";">>
  ELSE IF UsesVloadHalf(l, buf_dtype, var_dtype)
  THEN <<"vstore_half" \o (IF var_dtype.sz = 1 THEN "" ELSE ToString(var_dtype.sz)), "(">>
         \o var_name \o <<",", "0", ",">> \o buf_name \o <<"+">> \o idx \o <<")", ";">>
  ELSE IF var_dtype.sz > 1
  THEN <<"*", "(", "(">> \o VecPrefix(l, local)
         \o <<buf_dtype.name \o ToString(var_dtype.sz), "*", ")", "(">>
         \o buf_name \o <<"+">> \o idx \o <<")", ")", "=", "(",
         buf_dtype.name \o ToString(var_dtype.sz), ")">> \o var_name \o <<";">>
  ELSE IF P(l).uses_ptr_arithmetic
  THEN <<"*", "(">> \o buf_name \o <<"+">> \o idx \o <<")", "=">> \o var_name \o <<";">>
  ELSE buf_name \o <<"[">> \o idx \o <<"]", "=">> \o var_name \o <<";">>

function_name == "kern"

PyList(items) == [type |-> "list", items |-> items]
PyDict(items) == [type |-> "dict", items |-> items]

RECURSIVE Prod(_)
Prod(xs) == IF xs = <<>> THEN 1 ELSE Head(xs) * Prod(Tail(xs))

\* the type text of parameter i (from 1) in CStyleLanguage.render_kernel
buftype(l, i, dtype) ==
  IF isImage(dtype) THEN <<IF i > 1 THEN "read_only" ELSE "write_only", "image2d_t">>
  ELSE IF isPtr(dtype)
       THEN (IF i > 1 THEN <<"const">> ELSE <<>>) \o P(l).buffer_prefix
              \o <<dtype.name \o "*">> \o P(l).buffer_suffix
  ELSE IF DTypeEq(dtype, dt_int) THEN P(l).arg_int_prefix
  ELSE <<"None">>

render_kernel_raises(l, fname, kern, bfs, lsize, prek) ==
  l = "WGSLLanguage" /\ \E i \in 1..Len(bfs) : isPtr(bfs[i][2]) /\ ~InWGSLTypeMap(bfs[i][2])

\* lang.render_kernel(function_name, kernel, bufs, local_size, prekernel):
\* the text before the body lines, the body lines, the closing brace
render_kernel(l, fname, kern, bfs, lsize, prek) ==
  IF l = "WGSLLanguage"
  THEN [head |-> <<"fn nan() -> f32", "fn inf(a: f32) -> f32">> \o Flatten(prek)
                  \o Flatten([i \in 1..Len(bfs) |->
                       <<"@group(0)", "@binding(" \o ToString(i - 1) \o ")",
                         IF isPtr(bfs[i][2]) THEN "var<storage,read_write>" ELSE "var<uniform>",
                         bfs[i][1], ":",
                         IF isPtr(bfs[i][2]) THEN "array<" \o WGSLTypeMap(bfs[i][2]) \o ">"
                                             ELSE "i32", ";">>])
                  \o <<"@compute", "@workgroup_size", "(">>
                  \o Join(IF lsize # <<>>
                          THEN [i \in 1..Len(lsize) |-> <<ToString(lsize[Len(lsize) + 1 - i])>>]
                          ELSE <<(<<"1">>)>>, <<",">>)
                  \o <<")", "fn",
                       fname, "(", "gindex", ",", "lindex", ")", "{">>,
        body |-> kern, tail |-> <<"}">>]
  ELSE [head |-> (IF P(l).half_prekernel # <<>> /\ \E i \in 1..Len(bfs) : DTypeEq(bfs[i][2], dt_half)
                  THEN P(l).half_prekernel ELSE <<>>)
                  \o P(l).kernel_prefix \o <<"void">>
                  \o (IF P(l).launch_bounds
                      THEN <<"__launch_bounds__", "(", ToString(Prod(lsize)), ",", "1", ")">>
                      ELSE <<>>)
                  \o <<fname, "(">>
                  \o Join([i \in 1..Len(bfs) |-> buftype(l, i, bfs[i][2]) \o <<bfs[i][1]>>]
                            \o P(l).extra_args, <<",">>)
                  \o <<")", "{">>
                  \o (IF \E i \in 1..Len(bfs) : isImage(bfs[i][2])
                      THEN <<"const sampler_t smp = CLK_NORMALIZED_COORDS_FALSE | CLK_ADDRESS_CLAMP | CLK_FILTER_NEAREST;">>
                      ELSE <<>>),
        body |-> kern, tail |-> <<"}">>]

(***************************************************************************)
(* uops_to_cstyle: the state of one render call                            *)
(***************************************************************************)
UOp(uop, dtype, vin, arg) == [uop |-> uop, dtype |-> dtype, vin |-> vin, arg |-> arg]
Arg(op, name, n, m, flag) == [op |-> op, name |-> name, n |-> n, m |-> m, flag |-> flag]
NoArg == Arg("", "", 0, 0, FALSE)

Prefixes == {"ridx", "wmma", "alu", "acc", "val", "cast"}

\* a faulty table that counts a consumer once, however often it lists the record
CounterOfConsumers(us) ==
  [v \in 1..Len(us) |->
     Cardinality({j \in 1..Len(us) : \E k \in 1..Len(us[j].vin) : us[j].vin[k] = v})]
\* Counter(v for ru in uops for v in ru.vin)
RECURSIVE CountRefs(_, _)
CountRefs(us, v) ==
  IF us = <<>> THEN 0 ELSE CountTok(Head(us).vin, v) + CountRefs(Tail(us), v)
Counter(us) == [v \in 1..Len(us) |-> CountRefs(us, v)]

\* the record the main loop is at
u == uops[pos]
vin(i) == u.vin[i]
At(kind) == status = "running" /\ pos <= Len(uops) /\ u.uop = kind

\* r[x] raises KeyError when x has no entry
Unbound(xs) == \E x \in xs : x \notin DOMAIN r
Bind(rr, x, text) == [i \in DOMAIN rr \cup {x} |-> IF i = x THEN text ELSE rr[i]]

\* kk(s): kernel.append("  "*depth + s); by is the record that emitted the line
Line(d, s) == [depth |-> d, toks |-> s, by |-> pos]
kk(kern, d, s) == Append(kern, Line(d, s))

\* the name ssa(u, prefix) generates
ssa(prefix) == prefix \o ToString(c[prefix])
\* a faulty ssa that does not count: every name of a prefix is the same
NextCountStuck(prefix) == c
\* c[prefix] += 1
NextCount(prefix) == [c EXCEPT ![prefix] = @ + 1]

\* lang.generic_var_prefix if lang.generic_var_prefix else dtype.name
DeclType(dtype) ==
  IF P(lang).generic_var_prefix # <<>> THEN P(lang).generic_var_prefix ELSE <<dtype.name>>

Raise == /\ status' = "raised"
         /\ UNCHANGED <<lang, EXPAND_SSA, uops, child_count, pos, depth, kernel,
                        prekernel, bufs, local_size, c, r, ret>>

Advance == /\ pos' = pos + 1
           /\ UNCHANGED <<lang, EXPAND_SSA, uops, child_count, status, ret>>

(***************************************************************************)
(* The dispatch loop: one action per branch of `for u in uops`             *)
(***************************************************************************)
\* uop == UOps.LOOP
Loop ==
  /\ At("LOOP")
  /\ IF Unbound({vin(1), vin(2)}) THEN Raise
     ELSE /\ kernel' = kk(kernel, depth, render_for(lang, <<ssa("ridx")>>, r[vin(1)], r[vin(2)]))
          /\ r' = Bind(r, pos, <<ssa("ridx")>>)
          /\ c' = NextCount("ridx")
          /\ depth' = depth + 1
          /\ Advance /\ UNCHANGED <<prekernel, bufs, local_size>>

\* uop == UOps.IF
If ==
  /\ At("IF")
  /\ IF Unbound({vin(1)}) THEN Raise
     ELSE /\ kernel' = kk(kernel, depth, render_if(lang, r[vin(1)]))
          /\ depth' = depth + 1
          /\ Advance /\ UNCHANGED <<prekernel, bufs, local_size, c, r>>

\* uop == UOps.BARRIER
Barrier ==
  /\ At("BARRIER")
  /\ kernel' = kk(kernel, depth, P(lang).barrier)
  /\ Advance /\ UNCHANGED <<depth, prekernel, bufs, local_size, c, r>>

\* a faulty END that closes the scope without leaving it
EndNoDedent == kk(kernel, depth, <<"}">>)
\* depth -= 1; kk("}")
EndLines == kk(kernel, depth - 1, <<"}">>)

\* uop == UOps.END
End ==
  /\ At("END")
  /\ depth' = depth - 1
  /\ kernel' = EndLines
  /\ Advance /\ UNCHANGED <<prekernel, bufs, local_size, c, r>>

\* the lines of the METAL branch of WMMA, for the output name out
WmmaMetalLines(out) ==
  LET te(v, i) == <<v \o ".thread_elements", "(", ")", "[", i, "]">>
  IN << DeclType(u.dtype) \o <<out, ";">>,
        <<"{", "simdgroup_float8x8", "a", ",", "b", ",", "c", ";">>,
        te("a", "0") \o <<"=">> \o r[vin(1)] \o <<";">> \o te("a", "1") \o <<"=">> \o r[vin(2)] \o <<";">>,
        te("b", "0") \o <<"=">> \o r[vin(3)] \o <<";">> \o te("b", "1") \o <<"=">> \o r[vin(4)] \o <<";">>,
        te("c", "0") \o <<"=">> \o r[vin(5)] \o <<";">> \o te("c", "1") \o <<"=">> \o r[vin(6)] \o <<";">>,
        <<"simdgroup_multiply_accumulate", "(", "c", ",", "a", ",", "b", ",", "c", ")", ";">>,
        <<out \o ".x", "=">> \o te("c", "0") \o <<";", out \o ".y", "=">> \o te("c", "1") \o <<";", "}">> >>

\* uop == UOps.WMMA
Wmma ==
  /\ At("WMMA")
  /\ IF u.arg.op = "METAL"
     THEN IF ~DTypeEq(u.dtype, dt_float2) \/ Len(u.vin) < 6 \/ Unbound({vin(i) : i \in 1..6}) THEN Raise
          ELSE /\ kernel' = kernel \o [i \in 1..7 |-> Line(depth, WmmaMetalLines(ssa("wmma"))[i])]
               /\ r' = Bind(r, pos, <<ssa("wmma")>>)
               /\ c' = NextCount("wmma")
               /\ Advance /\ UNCHANGED <<depth, prekernel, bufs, local_size>>
     ELSE IF u.arg.op = "HIP"
     THEN IF ~DTypeEq(u.dtype, dt_float8) \/ Len(u.vin) < 3 \/ Unbound({vin(i) : i \in 1..3}) THEN Raise
          ELSE /\ kernel' = kk(kernel, depth,
                     DeclType(u.dtype) \o <<ssa("wmma"), "=", "__builtin_amdgcn_wmma_f32_16x16x16_f16_w32", "(">>
                       \o Join(<<r[vin(1)], r[vin(2)], r[vin(3)]>>, <<",">>) \o <<")", ";">>)
               /\ r' = Bind(r, pos, <<ssa("wmma")>>)
               /\ c' = NextCount("wmma")
               /\ Advance /\ UNCHANGED <<depth, prekernel, bufs, local_size>>
     ELSE Raise

StripClass == {"ADD", "SUB", "MUL", "XOR"}

\* the val of the ALU branch
ALUVal ==
  IF uops[vin(1)].uop = "ALU" /\ uops[vin(1)].arg.op = u.arg.op /\ u.arg.op \in StripClass
  THEN code_for_op(lang, u.arg.op,
                   <<strip_parens(r[vin(1)])>> \o [i \in 1..(Len(u.vin) - 1) |-> r[vin(i + 1)]],
                   u.dtype)
  ELSE code_for_op(lang, u.arg.op, [i \in 1..Len(u.vin) |-> r[vin(i)]], u.dtype)

\* a build without the childless assertion
ChildlessIgnored == FALSE
\* assert child_count[u] != 0 fails
Childless == child_count[pos] = 0

\* the inline decision with the four conditions joined by "and"
ALUInlineAsSpecified ==
  ~(child_count[pos] > 1 /\ ~is_int(u.dtype) /\ u.arg.op # "MAX" /\ EXPAND_SSA = 0)
\* an inline decision that ignores the use-count
ALUInlineOnlyInt == is_int(u.dtype) /\ u.arg.op # "MAX" /\ EXPAND_SSA = 0
\* (child_count[u] <= 1 or dtypes.is_int(dtype)) and args != BinaryOps.MAX and not getenv("EXPAND_SSA")
ALUInline ==
  (child_count[pos] <= 1 \/ is_int(u.dtype)) /\ u.arg.op # "MAX" /\ EXPAND_SSA = 0

\* uop == UOps.ALU
Alu ==
  /\ At("ALU")
  /\ IF IsNone(u.dtype) \/ u.arg.op \notin AllOps \/ Len(u.vin) = 0
        \/ Unbound({vin(i) : i \in 1..Len(u.vin)}) \/ Childless
     THEN Raise
     ELSE IF ALUInline
     THEN /\ r' = Bind(r, pos, ALUVal)
          /\ Advance /\ UNCHANGED <<depth, kernel, prekernel, bufs, local_size, c>>
     ELSE /\ kernel' = kk(kernel, depth, DeclType(u.dtype) \o <<ssa("alu"), "=">> \o ALUVal \o <<";">>)
          /\ r' = Bind(r, pos, <<ssa("alu")>>)
          /\ c' = NextCount("alu")
          /\ Advance /\ UNCHANGED <<depth, prekernel, bufs, local_size>>

\* uop == UOps.DEFINE_ACC
DefineAcc ==
  /\ At("DEFINE_ACC")
  /\ IF IsNone(u.dtype) \/ render_const_raises(lang, u.arg, u.dtype) THEN Raise
     ELSE /\ kernel' = kk(kernel, depth, DeclType(u.dtype) \o <<ssa("acc"), "=">>
                                           \o render_const(lang, u.arg, u.dtype) \o <<";">>)
          /\ r' = Bind(r, pos, <<ssa("acc")>>)
          /\ c' = NextCount("acc")
          /\ Advance /\ UNCHANGED <<depth, prekernel, bufs, local_size>>

\* the list args[1] selects: args[1] is kept as its first letter (op) and in full (name)
SpecialXid ==
  IF u.arg.op = "g" THEN P(lang).gid ELSE IF u.arg.op = "i" THEN P(lang).xid ELSE P(lang).lid

\* uop == UOps.SPECIAL, args = (axis n, name, size m)
Special ==
  /\ At("SPECIAL")
  /\ IF u.arg.n + 1 > Len(SpecialXid) THEN Raise
     ELSE /\ kernel' = kk(kernel, depth, P(lang).size_prefix \o <<u.arg.name, "=">>
                            \o SpecialXid[u.arg.n + 1] \o <<";", "/*", ToString(u.arg.m), "*/">>)
          /\ local_size' = IF u.arg.op = "l" THEN Append(local_size, u.arg.m) ELSE local_size
          /\ r' = Bind(r, pos, <<u.arg.name>>)
          /\ Advance /\ UNCHANGED <<depth, prekernel, bufs, c>>

\* uop == UOps.CONST; NaN >= 0 is false
Const ==
  /\ At("CONST")
  /\ IF IsNone(u.dtype) \/ render_const_raises(lang, u.arg, u.dtype) THEN Raise
     ELSE /\ r' = Bind(r, pos, IF ~IsNegative(u.arg) /\ ~isnan(u.arg)
                               THEN render_const(lang, u.arg, u.dtype)
                               ELSE <<"(">> \o render_const(lang, u.arg, u.dtype) \o <<")">>)
          /\ Advance /\ UNCHANGED <<depth, kernel, prekernel, bufs, local_size, c>>

\* the val of the LOAD branch
LoadVal ==
  LET val == render_load(lang, u.dtype, r[vin(1)], uops[vin(1)].dtype, strip_parens(r[vin(2)]),
                         uops[vin(1)].uop = "DEFINE_LOCAL")
  IN IF Len(u.vin) > 3 THEN render_conditional(lang, r[vin(3)], val, r[vin(4)]) ELSE val

\* a faulty LOAD that binds the record to its expression, as an inlined ALU is
LoadBoundToExpression == LoadVal
\* r[u] after ssa(u, 'val'): the generated name
LoadBinding == <<ssa("val")>>

\* uop == UOps.LOAD
Load ==
  /\ At("LOAD")
  /\ IF IsNone(u.dtype) \/ Len(u.vin) < 2
        \/ Unbound({vin(1), vin(2)} \cup (IF Len(u.vin) > 3 THEN {vin(3), vin(4)} ELSE {}))
        \/ render_load_raises(lang, u.dtype, r[vin(1)], uops[vin(1)].dtype, strip_parens(r[vin(2)]),
                              uops[vin(1)].uop = "DEFINE_LOCAL")
     THEN Raise
     ELSE /\ kernel' = kk(kernel, depth, DeclType(u.dtype) \o <<ssa("val"), "=">> \o LoadVal \o <<";">>)
          /\ r' = Bind(r, pos, LoadBinding)
          /\ c' = NextCount("val")
          /\ Advance /\ UNCHANGED <<depth, prekernel, bufs, local_size>>

\* uop == UOps.PHI
Phi ==
  /\ At("PHI")
  /\ IF Len(u.vin) < 2 \/ Unbound({vin(1), vin(2)}) THEN Raise
     ELSE /\ kernel' = kk(kernel, depth, r[vin(1)] \o <<"=">> \o r[vin(2)] \o <<";">>)
          /\ r' = Bind(r, pos, r[vin(1)])
          /\ Advance /\ UNCHANGED <<depth, prekernel, bufs, local_size, c>>

\* the statement of the STORE branch
StoreStmt ==
  render_store(lang, r[vin(1)], uops[vin(1)].dtype, r[vin(3)], uops[vin(3)].dtype,
               strip_parens(r[vin(2)]), uops[vin(1)].uop = "DEFINE_LOCAL")

\* a faulty STORE that drops the guard
StoreLinesUnguarded == <<StoreStmt>>
\* if len(vin) > 3: kk(render_if(r[vin[3]])); kk(render_store(...)); if len(vin) > 3: kk("}")
StoreLines ==
  IF Len(u.vin) > 3 THEN <<render_if(lang, r[vin(4)]), StoreStmt, <<"}">> >> ELSE <<StoreStmt>>

\* uop == UOps.STORE
Store ==
  /\ At("STORE")
  /\ IF Len(u.vin) < 3 \/ IsNone(uops[vin(1)].dtype) \/ IsNone(uops[vin(3)].dtype)
        \/ Unbound({vin(i) : i \in 1..Len(u.vin)})
        \/ render_store_raises(lang, r[vin(1)], uops[vin(1)].dtype, r[vin(3)], uops[vin(3)].dtype,
                               strip_parens(r[vin(2)]), uops[vin(1)].uop = "DEFINE_LOCAL")
     THEN Raise
     ELSE /\ kernel' = kernel \o [i \in 1..Len(StoreLines) |-> Line(depth, StoreLines[i])]
          /\ Advance /\ UNCHANGED <<depth, prekernel, bufs, local_size, c, r>>

\* [r[x] for x in vin]
CastOperands == [i \in 1..Len(u.vin) |-> r[vin(i)]]

\* child_count[u] <= 1
CastInline == child_count[pos] <= 1

\* uop == UOps.CAST and dtype is not None; args[1] (bitcast) is kept as flag
Cast ==
  /\ At("CAST") /\ ~IsNone(u.dtype)
  /\ IF Unbound({vin(i) : i \in 1..Len(u.vin)})
        \/ render_cast_raises(lang, CastOperands, u.dtype, u.arg.flag)
     THEN Raise
     ELSE IF CastInline
     THEN /\ r' = Bind(r, pos, render_cast(lang, CastOperands, u.dtype, u.arg.flag))
          /\ Advance /\ UNCHANGED <<depth, kernel, prekernel, bufs, local_size, c>>
     ELSE /\ kernel' = kk(kernel, depth, DeclType(u.dtype) \o <<ssa("cast"), "=">>
                            \o render_cast(lang, CastOperands, u.dtype, u.arg.flag) \o <<";">>)
          /\ r' = Bind(r, pos, <<ssa("cast")>>)
          /\ c' = NextCount("cast")
          /\ Advance /\ UNCHANGED <<depth, prekernel, bufs, local_size>>

\* uop == UOps.DEFINE_LOCAL, args = (name, size n)
DefineLocal ==
  /\ At("DEFINE_LOCAL")
  /\ IF P(lang).external_local_bufs
     THEN /\ prekernel' = Append(prekernel, render_local(lang, u.arg.name, u.arg.n))
          /\ UNCHANGED kernel
     ELSE /\ kernel' = kk(kernel, depth, render_local(lang, u.arg.name, u.arg.n))
          /\ UNCHANGED prekernel
  /\ r' = Bind(r, pos, <<u.arg.name>>)
  /\ Advance /\ UNCHANGED <<depth, bufs, local_size, c>>

\* a faulty DEFINE_GLOBAL that puts the buffer first
BufsPrepended == <<(<<u.arg.name, u.dtype>>)>> \o bufs
\* bufs.append((args, dtype))
BufsAppended == Append(bufs, <<u.arg.name, u.dtype>>)

\* uop == UOps.DEFINE_GLOBAL
DefineGlobal ==
  /\ At("DEFINE_GLOBAL")
  /\ IF IsNone(u.dtype) THEN Raise
     ELSE /\ bufs' = BufsAppended
          /\ r' = Bind(r, pos, <<u.arg.name>>)
          /\ Advance /\ UNCHANGED <<depth, kernel, prekernel, local_size, c>>

\* uop == UOps.GEP, args = component n
Gep ==
  /\ At("GEP")
  /\ IF Len(u.vin) < 1 \/ Unbound({vin(1)}) \/ IsNone(uops[vin(1)].dtype)
        \/ (uops[vin(1)].dtype.sz <= 4 /\ u.arg.n > 3)
     THEN Raise
     ELSE /\ r' = Bind(r, pos,
                   IF uops[vin(1)].dtype.sz > 4
                   THEN <<"(">> \o r[vin(1)] \o <<")", "[", ToString(u.arg.n), "]">>
                   ELSE <<"(">> \o r[vin(1)] \o <<")", ".", <<"x", "y", "z", "w">>[u.arg.n + 1]>>)
          /\ Advance /\ UNCHANGED <<depth, kernel, prekernel, bufs, local_size, c>>

UOpKinds == {"LOOP", "IF", "BARRIER", "END", "WMMA", "ALU", "DEFINE_ACC", "SPECIAL", "CONST",
             "LOAD", "PHI", "STORE", "CAST", "DEFINE_LOCAL", "DEFINE_GLOBAL", "GEP"}

\* else: raise RuntimeError(f"failed to render {uop}"); a CAST without dtype ends here
FailedToRender ==
  /\ status = "running" /\ pos <= Len(uops)
  /\ u.uop \notin UOpKinds \/ (u.uop = "CAST" /\ IsNone(u.dtype))
  /\ Raise

\* return lang.render_kernel(function_name, kernel, bufs, local_size, prekernel), {}
ReturnValue == <<render_kernel(lang, function_name, kernel, bufs, local_size, prekernel), PyDict(<<>>)>>

Return ==
  /\ status = "running" /\ pos = Len(uops) + 1
  /\ IF render_kernel_raises(lang, function_name, kernel, bufs, local_size, prekernel) THEN Raise
     ELSE /\ ret' = ReturnValue
          /\ status' = "returned"
          /\ UNCHANGED <<lang, EXPAND_SSA, uops, child_count, pos, depth, kernel,
                         prekernel, bufs, local_size, c, r>>

Next == \/ Loop \/ If \/ Barrier \/ End \/ Wmma \/ Alu \/ DefineAcc \/ Special \/ Const
        \/ Load \/ Phi \/ Store \/ Cast \/ DefineLocal \/ DefineGlobal \/ Gep
        \/ FailedToRender \/ Return

(***************************************************************************)
(* The inputs of a render call: the profile, the EXPAND_SSA environment    *)
(* variable and the list of UOps the linearizer hands over.  Every list is *)
(* topologically valid (vin refers to earlier positions).                  *)
(***************************************************************************)
MaxBufs == 3
MaxRefs == 2
MaxCtl == 4
MaxTail == 3
MaxOperands == 4

BufNames == {"A", "B", "C"}

DefGlobal(name, dtype) == UOp("DEFINE_GLOBAL", dtype, <<>>, Arg("", name, 0, 0, FALSE))
ConstOf(dtype, n) == UOp("CONST", dtype, <<>>, Num(n))
AluOf(op, dtype, ins) == UOp("ALU", dtype, ins, Arg(op, "", 0, 0, FALSE))
CastOf(dtype, ins, bitcast) == UOp("CAST", dtype, ins, Arg("", "", 0, 0, bitcast))
LoadOf(dtype, ins) == UOp("LOAD", dtype, ins, NoArg)
StoreOf(ins) == UOp("STORE", NoneDType, ins, NoArg)
Ctl(kind, ins) == UOp(kind, NoneDType, ins, NoArg)

\* the positions of p holding a value of the scalar type named
ValueKinds == {"CONST", "ALU", "CAST", "LOAD", "DEFINE_ACC", "PHI", "SPECIAL", "LOOP"}
Vals(p, name) == {i \in 1..Len(p) : p[i].uop \in ValueKinds /\ p[i].dtype.name = name}
Globals(p) == {i \in 1..Len(p) : p[i].uop = "DEFINE_GLOBAL" /\ isPtr(p[i].dtype)}

\* all lists got from the lists of S by appending up to k records of Menu
RECURSIVE GrowRefs(_, _)
RefMenu(p) ==
  LET idx == CHOOSE i \in Vals(p, "int") : TRUE
      val == CHOOSE i \in Vals(p, "float") : p[i].uop = "CONST"
  IN {LoadOf(dt_float, <<b, idx>>) : b \in Globals(p)}
       \cup {StoreOf(<<b, idx, val>>) : b \in Globals(p)}
GrowRefs(S, k) ==
  IF k = 0 THEN S
  ELSE S \cup GrowRefs(UNION {{Append(p, x) : x \in RefMenu(p)} : p \in S}, k - 1)

\* the buffer declarations: every order of every choice of up to MaxBufs names
RECURSIVE BufPrefixes(_)
BufPrefixes(k) ==
  IF k = 0 THEN {<<>>}
  ELSE LET S == BufPrefixes(k - 1)
       IN S \cup UNION {{Append(p, DefGlobal(n, PtrDType(dt_float))) :
                           n \in BufNames \ {p[i].arg.name : i \in 1..Len(p)}} : p \in S}

BufferPrograms ==
  GrowRefs({p \o <<ConstOf(dt_int, 0), ConstOf(dt_float, 1)>> : p \in BufPrefixes(MaxBufs) \ {<<>>}},
           MaxRefs)

\* control flow over a fixed preamble: a buffer, loop bounds, a value, a guard
CtlPreamble ==
  <<DefGlobal("data0", PtrDType(dt_float)), ConstOf(dt_int, 0), ConstOf(dt_int, 4),
    ConstOf(dt_float, 1), ConstOf(dt_bool, 1)>>
CtlMenu ==
  { UOp("LOOP", dt_int, <<2, 3>>, NoArg), Ctl("IF", <<5>>), Ctl("END", <<>>), Ctl("BARRIER", <<>>),
    StoreOf(<<1, 2, 4>>), StoreOf(<<1, 2, 4, 5>>),
    UOp("WMMA", dt_float2, <<4, 4, 4, 4, 4, 4>>, Arg("METAL", "", 0, 0, FALSE)) }
RECURSIVE GrowCtl(_, _)
GrowCtl(S, k) ==
  IF k = 0 THEN S
  ELSE S \cup GrowCtl({Append(p, x) : p \in S, x \in CtlMenu}, k - 1)
ControlPrograms == GrowCtl({CtlPreamble}, MaxCtl)
ControlProfiles == {"CStyleLanguage", "MetalLanguage", "WGSLLanguage"}

\* values over a preamble whose position 1 is the buffer: every record of the
\* kinds and operators given whose operands are among positions 2..n
ValUniverse(n, kinds, ops) ==
  {x \in {AluOf(op, d, <<x, y>>) : op \in ops, d \in {dt_int, dt_float}, x \in 2..n, y \in 2..n}
           \cup {CastOf(d, <<x>>, FALSE) : d \in {dt_int, dt_float}, x \in 2..n}
           \cup {LoadOf(dt_float, <<1, x>>) : x \in 2..n}
           \cup {StoreOf(<<1, x, y>>) : x \in 2..n, y \in 2..n}
           \cup {UOp("PHI", dt_float, <<a, y>>, NoArg) : a \in 2..n, y \in 2..n} :
     x.uop \in kinds}

\* the operands of x are values of p of the types x takes
HasType(p, i, name) == p[i].uop \in ValueKinds /\ p[i].dtype.name = name
WellTyped(p, x) ==
  CASE x.uop = "ALU"   -> \A i \in 1..2 : HasType(p, x.vin[i], x.dtype.name)
    [] x.uop = "CAST"  -> \E t \in {"int", "float"} : t # x.dtype.name /\ HasType(p, x.vin[1], t)
    [] x.uop = "LOAD"  -> HasType(p, x.vin[2], "int")
    [] x.uop = "STORE" -> HasType(p, x.vin[2], "int") /\ HasType(p, x.vin[3], "float")
    [] x.uop = "PHI"   -> /\ p[x.vin[1]].uop = "DEFINE_ACC"
                          /\ HasType(p, x.vin[2], "float") /\ p[x.vin[2]].uop # "DEFINE_ACC"

\* the lists of F (all of length n) and all they grow into by up to k more records
RECURSIVE GrowVal(_, _, _, _, _)
GrowVal(F, n, k, kinds, ops) ==
  IF k = 0 THEN F
  ELSE F \cup GrowVal({q \in {Append(p, x) : p \in F, x \in ValUniverse(n, kinds, ops)} :
                         WellTyped(q, q[n + 1])}, n + 1, k - 1, kinds, ops)

\* arithmetic, casts, loads and stores
ValPreamble ==
  <<DefGlobal("data0", PtrDType(dt_float)), ConstOf(dt_int, 2), ConstOf(dt_float, 1)>>
ValuePrograms ==
  GrowVal({ValPreamble}, Len(ValPreamble), MaxTail, {"ALU", "CAST", "LOAD", "STORE"}, {"ADD", "MAX"})

\* accumulators: sums, casts, accumulator updates and stores
AccPreamble == Append(ValPreamble, UOp("DEFINE_ACC", dt_float, <<>>, Num(0)))
AccPrograms ==
  GrowVal({AccPreamble}, Len(AccPreamble), MaxTail, {"ALU", "CAST", "PHI", "STORE"}, {"ADD"})

\* one CAST of 0..MaxOperands operands to each width, bitcast or not
CastTypes == {dt_float, dt_half, dt_int, dt_float2, dt_float4, dt_float8}
CastPrograms ==
  { <<ConstOf(dt_float, 1), CastOf(d, [i \in 1..n |-> 1], b)>> :
      d \in CastTypes, n \in 0..MaxOperands, b \in BOOLEAN }

\* the remaining kinds of record and of type
OtherPrograms ==
  { <<UOp("SPECIAL", dt_int, <<>>, Arg("g", "gidx0", 0, 4, FALSE)),
      UOp("SPECIAL", dt_int, <<>>, Arg("l", "lidx0", 1, 8, FALSE)),
      UOp("SPECIAL", dt_int, <<>>, Arg("i", "idx0", 0, 32, FALSE)),
      UOp("DEFINE_LOCAL", PtrDType(dt_float), <<>>, Arg("", "temp", 16, 0, FALSE)),
      Ctl("BARRIER", <<>>),
      LoadOf(dt_float, <<4, 1>>)>>,
    <<DefGlobal("data0", PtrDType(dt_float)), DefGlobal("data1", PtrDType(dt_half)),
      DefGlobal("n", dt_int), ConstOf(dt_int, 0), ConstOf(dt_bool, 1), ConstOf(dt_float, -1),
      LoadOf(dt_float4, <<2, 4, 5, 6>>),
      UOp("GEP", dt_float, <<7>>, Arg("", "", 3, 0, FALSE)),
      StoreOf(<<1, 4, 8>>)>>,
    <<DefGlobal("data0", dt_imagef), ConstOf(dt_int, 0), ConstOf(dt_float4, 2),
      UOp("CONST", dt_float, <<>>, Arg("nan", "", 0, 0, FALSE)),
      UOp("CONST", dt_float, <<>>, Arg("ninf", "", 0, 0, FALSE)),
      LoadOf(dt_float4, <<1, 2>>), StoreOf(<<1, 2, 6>>)>>,
    <<ConstOf(dt_half, 1),
      UOp("WMMA", dt_float8, <<1, 1, 1>>, Arg("HIP", "", 0, 0, FALSE)),
      UOp("GEP", dt_float, <<2>>, Arg("", "", 5, 0, FALSE)),
      UOp("WMMA", dt_float8, <<1, 1, 1>>, Arg("CUDA", "", 0, 0, FALSE))>>,
    <<ConstOf(dt_float, 1), CastOf(NoneDType, <<1>>, FALSE)>>,
    <<DefGlobal("data0", PtrDType(dt_float)), ConstOf(dt_int, 2),
      AluOf("MAX", dt_int, <<2, 2>>), AluOf("ADD", dt_int, <<3, 3>>),
      AluOf("ADD", dt_int, <<4, 4>>), LoadOf(dt_float, <<1, 5>>)>>,
    <<DefGlobal("data0", PtrDType(dt_float)), ConstOf(dt_int, 2),
      LoadOf(dt_float, <<1, 2>>), LoadOf(dt_float, <<1, 2>>),
      AluOf("ADD", dt_float, <<3, 4>>), AluOf("ADD", dt_float, <<5, 4>>),
      StoreOf(<<1, 2, 6>>)>> }

Inputs ==
  \/ uops \in BufferPrograms /\ lang \in Profiles /\ EXPAND_SSA = 0
  \/ uops \in ControlPrograms /\ lang \in ControlProfiles /\ EXPAND_SSA = 0
  \/ uops \in ValuePrograms /\ lang = "CStyleLanguage" /\ EXPAND_SSA \in {0, 1}
  \/ uops \in AccPrograms /\ lang = "CStyleLanguage" /\ EXPAND_SSA = 0
  \/ uops \in CastPrograms /\ lang \in Profiles /\ EXPAND_SSA = 0
  \/ uops \in OtherPrograms /\ lang \in Profiles /\ EXPAND_SSA = 0

\* the locals of uops_to_cstyle before the main loop
Locals ==
  /\ child_count = Counter(uops)
  /\ pos = 1
  /\ status = "running"
  /\ depth = 1
  /\ kernel = <<>> /\ prekernel = <<>> /\ bufs = <<>> /\ local_size = <<>>
  /\ c = [p \in Prefixes |-> 0]
  /\ r = <<>>
  /\ ret = <<>>

Init == Inputs /\ Locals

Spec == Init /\ [][Next]_vars

(***************************************************************************)
(* Vocabulary of the properties                                            *)
(***************************************************************************)
Positions == 1..Len(uops)
\* record i was dispatched and did not raise
Processed(i) == i \in Positions /\ i < pos
Returned == status = "returned"
\* the kernel lines record i emitted
LinesBy(i) == {k \in 1..Len(kernel) : kernel[k].by = i}
\* the text record i put into the kernel, its lines one after the other
RECURSIVE TextFrom(_, _)
TextFrom(i, k) ==
  IF k > Len(kernel) THEN <<>>
  ELSE (IF kernel[k].by = i THEN kernel[k].toks ELSE <<>>) \o TextFrom(i, k + 1)
\* what record j rendered: its expression if it emitted nothing, else its lines
Rendered(j) == IF LinesBy(j) = {} /\ j \in DOMAIN r THEN r[j] ELSE TextFrom(j, 1)

RECURSIVE CountInLines(_, _, _)
\* occurrences of lexeme tok in kernel lines k, k+1, ...
CountInLines(kern, k, tok) ==
  IF k > Len(kern) THEN 0 ELSE CountTok(kern[k].toks, tok) + CountInLines(kern, k + 1, tok)

\* a line declaring name: <type> <name> = ...
IsDeclOf(line, name) == Len(line.toks) >= 3 /\ line.toks[2] = name /\ line.toks[3] = "="

\* record i is an ALU or CAST that was given a temporary name
Materialized(i) ==
  /\ Processed(i) /\ uops[i].uop \in {"ALU", "CAST"}
  /\ LinesBy(i) # {} /\ i \in DOMAIN r
\* record i is an ALU or CAST bound to its expression
Inlined(i) ==
  /\ Processed(i) /\ uops[i].uop \in {"ALU", "CAST"}
  /\ LinesBy(i) = {} /\ i \in DOMAIN r

(***************************************************************************)
(* C1: buffer order                                                        *)
(***************************************************************************)
\* the (name, dtype) of the DEFINE_GLOBAL records among the first n, in order
RECURSIVE Declared(_)
Declared(n) ==
  IF n = 0 THEN <<>>
  ELSE IF uops[n].uop = "DEFINE_GLOBAL"
       THEN Append(Declared(n - 1), <<uops[n].arg.name, uops[n].dtype>>)
       ELSE Declared(n - 1)
DeclaredNames == [i \in 1..Len(Declared(Len(uops))) |-> Declared(Len(uops))[i][1]]
IsDeclaredName(t) == \E i \in 1..Len(DeclaredNames) : DeclaredNames[i] = t

Opens == {"LOOP", "IF"}
RECURSIVE Nest(_)
\* the nesting of the list after its first k records
Nest(k) ==
  IF k = 0 THEN 0
  ELSE Nest(k - 1) + (IF uops[k].uop \in Opens THEN 1 ELSE 0)
                   - (IF uops[k].uop = "END" THEN 1 ELSE 0)
WellFormed == Nest(Len(uops)) = 0 /\ \A k \in Positions : Nest(k) >= 0
\* the LOOP or IF that the END at e closes
Opener(e) ==
  CHOOSE j \in 1..(e - 1) :
    /\ uops[j].uop \in Opens /\ Nest(j - 1) = Nest(e)
    /\ \A m \in j..(e - 1) : Nest(m) > Nest(e)

NumOf(S) == Cardinality({i \in Positions : uops[i].uop \in S})
NumGuardedStores == Cardinality({i \in Positions : uops[i].uop = "STORE" /\ Len(uops[i].vin) > 3})
NumMetalWmma == Cardinality({i \in Positions : uops[i].uop = "WMMA" /\ uops[i].arg.op = "METAL"})

\* every END is one closing brace at the depth of the line of its opener
EndsMatch ==
  \A e \in Positions : uops[e].uop = "END" =>
    /\ Cardinality(LinesBy(e)) = 1 /\ Cardinality(LinesBy(Opener(e))) = 1
    /\ \A k \in LinesBy(e), o \in LinesBy(Opener(e)) :
         /\ kernel[k].toks = <<"}">> /\ o < k
         /\ kernel[k].depth = kernel[o].depth
         /\ CountTok(kernel[o].toks, "{") = 1

\* C2 as stated: in a well-formed list every END closes its opener at the opener's
\* depth, the braces balance, and there are as many opening braces as LOOPs and IFs.
C2_BracesEqualOpens ==
  Returned /\ WellFormed =>
    /\ EndsMatch
    /\ CountInLines(kernel, 1, "{") = CountInLines(kernel, 1, "}")
    /\ CountInLines(kernel, 1, "{") = NumOf(Opens)

\* C2 amended: ... and there are as many opening braces as LOOPs, IFs, guarded
\* STOREs and METAL WMMAs together.
C2_BracesBalanced ==
  Returned /\ WellFormed =>
    /\ EndsMatch
    /\ CountInLines(kernel, 1, "{") = CountInLines(kernel, 1, "}")
    /\ CountInLines(kernel, 1, "{") = NumOf(Opens) + NumGuardedStores + NumMetalWmma

\* a well-formed list with a closed scope, a guarded STORE and a WMMA
C2_Witness ==
  /\ Returned /\ WellFormed
  /\ NumOf(Opens) >= 1 /\ NumGuardedStores >= 1 /\ NumMetalWmma >= 1

\* C6 as stated: a render call on an unbalanced list never returns kernel text.
C6_UnbalancedIsFatal == Returned => WellFormed

(***************************************************************************)
(* C3: single assignment                                                   *)
(***************************************************************************)
RECURSIVE Emit(_), UsesFrom(_, _)
\* how many times the text of record k ends up in the kernel: once if k emitted
\* a statement, else once for every place its consumers put it
Emit(k) == IF LinesBy(k) # {} THEN 1 ELSE UsesFrom(k, k + 1)
UsesFrom(i, j) ==
  IF j > Len(uops) THEN 0
  ELSE CountTok(uops[j].vin, i) * Emit(j) + UsesFrom(i, j + 1)

DeclLine(i) == CHOOSE k \in LinesBy(i) : TRUE
NumDecls(name) == Cardinality({k \in 1..Len(kernel) : IsDeclOf(kernel[k], name)})
RefsAfterDecl(i) == CountInLines(kernel, DeclLine(i) + 1, r[i][1])

\* C3 as stated: a materialized ALU or CAST with use-count > 1 is declared once
\* and its name is referenced exactly use-count times after the declaration.
C3_ReferencedUseCountTimes ==
  Returned =>
    \A i \in Positions : Materialized(i) /\ child_count[i] > 1 =>
      /\ NumDecls(r[i][1]) = 1
      /\ RefsAfterDecl(i) = child_count[i]

\* C3 amended: ... is declared once, and its name is referenced after the
\* declaration once for every operand position of a consumer that emits a
\* statement and, through a consumer that is inlined, once for every place that
\* consumer's expression ends up in the kernel: use-count times when every
\* consumer emits a statement, not at all through a consumer that is never used.
C3_ReferencedOncePerEmittedUse ==
  Returned =>
    \A i \in Positions : Materialized(i) /\ child_count[i] > 1 =>
      /\ NumDecls(r[i][1]) = 1
      /\ IsDeclOf(kernel[DeclLine(i)], r[i][1])
      /\ RefsAfterDecl(i) = UsesFrom(i, i + 1)
      /\ (\A j \in Positions : i \in {uops[j].vin[k] : k \in 1..Len(uops[j].vin)} => LinesBy(j) # {})
           => RefsAfterDecl(i) = child_count[i]

\* a materialized record used twice by an inlined consumer that is itself used
\* twice: its name is referenced more often than its use-count
C3_Witness ==
  /\ Returned
  /\ \E i, j \in Positions :
       /\ Materialized(i) /\ child_count[i] = 2 /\ Inlined(j)
       /\ CountTok(uops[j].vin, i) = 2 /\ Emit(j) = 2
       /\ RefsAfterDecl(i) = 4

(***************************************************************************)
(* C4: inlining                                                            *)
(***************************************************************************)
\* the consumer j strips the parentheses of its operand at position k
Strips(j, k) ==
  \/ uops[j].uop \in {"LOAD", "STORE"} /\ k = 2
  \/ /\ uops[j].uop = "ALU" /\ k = 1
     /\ uops[uops[j].vin[1]].uop = "ALU" /\ uops[uops[j].vin[1]].arg.op = uops[j].arg.op
     /\ uops[j].arg.op \in StripClass

\* C4 as stated: an ALU or CAST with use-count <= 1 emits no declaration, whatever
\* its operator, and its consumer's rendered expression contains its expression.
C4_ConsumerContainsExpression ==
  \A i \in Positions : Processed(i) /\ uops[i].uop \in {"ALU", "CAST"} /\ child_count[i] <= 1
                        /\ EXPAND_SSA = 0 =>
    /\ LinesBy(i) = {}
    /\ \A j \in Positions : Processed(j) =>
         \A k \in 1..Len(uops[j].vin) : uops[j].vin[k] = i => IsInfix(r[i], Rendered(j))

\* C4 amended: an ALU with use-count <= 1 whose operator is not max (EXPAND_SSA
\* unset), or a CAST with use-count <= 1, emits no declaration and is bound to
\* its expression; its consumer's rendered text contains that expression, without
\* its outer parentheses where the consumer strips them (a LOAD or STORE index,
\* the first operand of an ALU of the same operator among add, sub, mul, xor).
C4_ConsumerContainsStripped ==
  \A i \in Positions :
    /\ Processed(i) /\ child_count[i] <= 1
    /\ \/ uops[i].uop = "ALU" /\ uops[i].arg.op # "MAX" /\ EXPAND_SSA = 0
       \/ uops[i].uop = "CAST"
    =>
    /\ Inlined(i)
    /\ \A j \in Positions : Processed(j) =>
         \A k \in 1..Len(uops[j].vin) : uops[j].vin[k] = i =>
           IF Strips(j, k) THEN IsInfix(strip_parens(r[i]), Rendered(j))
                           ELSE IsInfix(r[i], Rendered(j))

\* an inlined sum used as the index of a LOAD, where the parentheses are stripped
C4_Witness ==
  \E i, j \in Positions :
    /\ Processed(j) /\ Inlined(i) /\ uops[i].uop = "ALU" /\ child_count[i] = 1
    /\ uops[j].uop = "LOAD" /\ uops[j].vin[2] = i
    /\ strip_parens(r[i]) # r[i] /\ ~IsInfix(r[i], Rendered(j))

(***************************************************************************)
(* C5: render_cast and the vector width                                    *)
(***************************************************************************)
\* C5 as stated: render_cast succeeds only when the number of operands is the
\* vector width of the target type.
C5_SucceedsOnlyOnWidth ==
  \A i \in Positions : Processed(i) /\ uops[i].uop = "CAST" =>
    Len(uops[i].vin) = uops[i].dtype.sz

(***************************************************************************)
(* C7: predicated store                                                    *)
(***************************************************************************)
\* C7: a STORE with a guard operand appends exactly three lines to the kernel,
\* the profile's render_if of the guard's expression, the store statement and a
\* closing brace, and leaves the nesting depth as it was.
C7_GuardedStoreIsBlock ==
  [][ At("STORE") /\ Len(u.vin) > 3 /\ status' = "running" =>
        /\ depth' = depth
        /\ Len(kernel') = Len(kernel) + 3
        /\ SubSeq(kernel', 1, Len(kernel)) = kernel
        /\ kernel'[Len(kernel) + 1].toks = render_if(lang, r[vin(4)])
        /\ kernel'[Len(kernel) + 2].toks =
             render_store(lang, r[vin(1)], uops[vin(1)].dtype, r[vin(3)], uops[vin(3)].dtype,
                          strip_parens(r[vin(2)]), uops[vin(1)].uop = "DEFINE_LOCAL")
        /\ kernel'[Len(kernel) + 3].toks = <<"}">>
        /\ \A k \in (Len(kernel) + 1)..(Len(kernel) + 3) :
             kernel'[k].by = pos /\ kernel'[k].depth = depth
    ]_vars

\* a guarded STORE inside a loop was rendered by the WGSL profile
C7_Witness ==
  \E i \in Positions :
    /\ Processed(i) /\ uops[i].uop = "STORE" /\ Len(uops[i].vin) > 3
    /\ Cardinality(LinesBy(i)) = 3 /\ lang = "WGSLLanguage"
    /\ \A k \in LinesBy(i) : kernel[k].depth = 2

(***************************************************************************)
(* C8: childless ALU                                                       *)
(***************************************************************************)
\* C8: the render call never gets past an ALU record without consumers: the
\* record is neither bound nor rendered, and the call does not return.
C8_ChildlessAluIsFatal ==
  \A i \in Positions : uops[i].uop = "ALU" /\ CountRefs(uops, i) = 0 =>
    /\ pos <= i
    /\ i \notin DOMAIN r
    /\ LinesBy(i) = {}
    /\ ~Returned

\* the call raised at an ALU without consumers, all else about it being in order
C8_Witness ==
  /\ status = "raised" /\ pos \in Positions /\ u.uop = "ALU"
  /\ child_count[pos] = 0 /\ ~IsNone(u.dtype) /\ u.arg.op \in AllOps
  /\ ~Unbound({vin(i) : i \in 1..Len(u.vin)})

(***************************************************************************)
(* C9: inline or materialize                                               *)
(***************************************************************************)
\* record i was declared under a fresh name, to which it is bound
DeclaredFresh(i) ==
  /\ Materialized(i) /\ Cardinality(LinesBy(i)) = 1
  /\ Len(r[i]) = 1 /\ IsDeclOf(kernel[DeclLine(i)], r[i][1])
\* record i is bound to its expression and emitted nothing
BoundToExpression(i) == Inlined(i) /\ Len(r[i]) > 1

\* C9 as stated: an ALU is materialized when its use-count exceeds 1 and its type
\* is not an integer type and its operator is not max and EXPAND_SSA is unset;
\* in every other case it is inlined.
C9_MaterializeWhenAllHold ==
  \A i \in Positions : Processed(i) /\ uops[i].uop = "ALU" =>
    IF child_count[i] > 1 /\ ~is_int(uops[i].dtype) /\ uops[i].arg.op # "MAX" /\ EXPAND_SSA = 0
    THEN DeclaredFresh(i) ELSE BoundToExpression(i)

\* C9 amended: an ALU is materialized when its use-count exceeds 1 and its type is
\* not an integer type, or its operator is max, or EXPAND_SSA is set; in every
\* other case it is inlined.
C9_MaterializeWhenAnyHolds ==
  \A i \in Positions : Processed(i) /\ uops[i].uop = "ALU" =>
    IF (child_count[i] > 1 /\ ~is_int(uops[i].dtype)) \/ uops[i].arg.op = "MAX" \/ EXPAND_SSA # 0
    THEN DeclaredFresh(i) ELSE BoundToExpression(i)

\* a max with one consumer was materialized with EXPAND_SSA unset
C9_Witness ==
  \E i \in Positions :
    /\ Processed(i) /\ uops[i].uop = "ALU" /\ uops[i].arg.op = "MAX"
    /\ child_count[i] = 1 /\ EXPAND_SSA = 0 /\ DeclaredFresh(i)

(***************************************************************************)
(* C10: values across a PHI                                                *)
(***************************************************************************)
\* the text of record i is part of what record j rendered: j has i as an operand,
\* directly or through operands that are bound to expressions
RECURSIVE Reaches(_, _)
Reaches(j, i) ==
  \E k \in 1..Len(uops[j].vin) :
    LET m == uops[j].vin[k]
    IN \/ m = i
       \/ /\ m > i /\ uops[m].uop \in {"ALU", "CAST", "GEP"} /\ LinesBy(m) = {}
          /\ Reaches(m, i)

\* C10 as stated, in the case it names: the expression of an inlined ALU or CAST
\* that mentions an accumulator is not put into a statement emitted after a PHI
\* assigned that accumulator.
C10_NoReadAfterPhi ==
  \A k \in Positions : Processed(k) /\ uops[k].uop = "PHI" =>
    \A i \in 1..(k - 1) :
      uops[i].uop \in {"ALU", "CAST"} /\ Inlined(i) /\ CountTok(r[i], r[uops[k].vin[1]][1]) > 0 =>
        \A j \in (k + 1)..Len(uops) : Processed(j) /\ LinesBy(j) # {} => ~Reaches(j, i)


(***************************************************************************)
(* C11: loads                                                              *)
(***************************************************************************)
\* the LOAD records before record i
LoadsBefore(i) == Cardinality({j \in 1..(i - 1) : uops[j].uop = "LOAD"})
\* the expression a declaration line assigns: what stands between "=" and ";"
Assigned(line) == SubSeq(line.toks, 4, Len(line.toks) - 1)

\* C11: a LOAD that has been processed emitted exactly one kernel line, the
\* declaration of a name "val<n>" no other line declares; the line stands after
\* the lines of all earlier records and before the lines of all later records,
\* whatever the use-count; the record is bound to the name alone, every consumer's
\* text holds the name, and no later binding holds the load expression.
C11_LoadMaterializedOnce ==
  \A i \in Positions : Processed(i) /\ uops[i].uop = "LOAD" =>
    /\ Cardinality(LinesBy(i)) = 1
    /\ r[i] = <<"val" \o ToString(LoadsBefore(i))>>
    /\ IsDeclOf(kernel[DeclLine(i)], r[i][1])
    /\ NumDecls(r[i][1]) = 1
    /\ \A m \in 1..Len(kernel) :
         /\ kernel[m].by < i => m < DeclLine(i)
         /\ kernel[m].by > i => m > DeclLine(i)
    /\ \A j \in Positions : Processed(j) /\ CountTok(uops[j].vin, i) > 0 =>
         CountTok(Rendered(j), r[i][1]) > 0
    /\ \A j \in DOMAIN r : j > i => ~IsInfix(Assigned(kernel[DeclLine(i)]), r[j])

\* a LOAD with two consumers, both inlined, between the line of an earlier
\* record and the line of a later one
C11_Witness ==
  /\ Returned
  /\ \E i \in Positions :
       /\ uops[i].uop = "LOAD" /\ child_count[i] = 2
       /\ \E j, k \in Positions : j # k /\ Inlined(j) /\ Inlined(k)
                                   /\ CountTok(uops[j].vin, i) = 1 /\ CountTok(uops[k].vin, i) = 1
       /\ \E m, n \in 1..Len(kernel) : kernel[m].by < i /\ kernel[n].by > i
       /\ CountInLines(kernel, DeclLine(i) + 1, r[i][1]) = 2

(***************************************************************************)
(* C12: the use-count table                                                *)
(***************************************************************************)
\* the records that list record i among their operands
Consumers(i) == {j \in Positions : \E k \in 1..Len(uops[j].vin) : uops[j].vin[k] = i}
\* the operand positions, over all records, that hold record i
OperandPositions(i) ==
  UNION {{<<j, k>> : k \in {n \in 1..Len(uops[j].vin) : uops[j].vin[n] = i}} : j \in Positions}

\* C12 as stated: the use-count of a record is the number of records that list it
\* as an operand, a record that lists it twice counting once.
C12_CountsConsumers ==
  \A i \in Positions : Processed(i) => child_count[i] = Cardinality(Consumers(i))

\* C12 amended: the use-count of a record is the number of operand positions,
\* over all records of the sequence, that hold it (a consumer that lists it in
\* two positions counts twice); the table has this value from before the first
\* record is dispatched and no step changes it, nor the sequence it is made from.
C12_CountsOperandPositions ==
  /\ [](\A i \in Positions : child_count[i] = Cardinality(OperandPositions(i)))
  /\ [][child_count' = child_count /\ uops' = uops]_vars

\* a float sum whose only consumer lists it twice: use-count 2, so that it was
\* given a temporary
C12_Witness ==
  \E i \in Positions :
    /\ Materialized(i) /\ uops[i].uop = "ALU" /\ uops[i].arg.op = "ADD" /\ ~is_int(uops[i].dtype)
    /\ EXPAND_SSA = 0 /\ child_count[i] = 2
    /\ \E j \in Positions : Consumers(i) = {j} /\ Processed(j) /\ uops[j].vin = <<i, i>>

====
